---- MODULE Spec2Model ----
(***************************************************************************)
(* The Opus pipeline of src/main.go: the read loop processRTPPackets, the  *)
(* worker goroutines it spawns, the batching writer writeToFFmpeg, and the *)
(* cleanup goroutine / connection-state callback set up in main's OnTrack. *)
(*                                                                         *)
(* A packet is identified by its arrival number 1..MaxPackets; its payload *)
(* is that number (the worker's copy() is a byte-for-byte copy).           *)
(* Time is abstract: the 5 ms ticker may fire whenever the writer selects, *)
(* and time.Since(lastMetricTime) >= time.Second may or may not hold.      *)
(* A Go panic in any goroutine ends the process: every action is guarded   *)
(* by panic = "none".                                                      *)
(***************************************************************************)
EXTENDS Integers, Sequences, FiniteSets

\* ---- bounds of the model ----
\* packets the source delivers before it can only fail
MaxPackets == 2
\* newStreamHandler(workers) is explored for workers in 1..MaxWorkers
\* (main.go:255 passes 4)
MaxWorkers == 2
\* capacity of processedChan; main.go:32 makes it 100, scaled down here
QueueCap == 1
\* batchSize of writeToFFmpeg; main.go:93 sets 5, scaled down here
BatchSize == 2
\* invocations of the connection-state callback with state Closed
MaxStops == 2

VARIABLES
    workerCount,    \* h.workerCount
    metricsEnabled, \* h.metricsEnabled
    hDone,          \* h.done is closed
    done,           \* the OnTrack-local done channel is closed
    stops,          \* callback invocations with PeerConnectionStateClosed
    cleanupPc,      \* the cleanup goroutine: "wait", "close_sink", "end"
    sinkCloses,     \* calls of h.ffmpegStdin.Close()
    readerPc,       \* processRTPPackets: "start", "select", "read", "dispatch", "returned"
    pkt,            \* rtpPacket.Payload held by the read loop (0: none)
    nread,          \* packets ReadRTP has returned
    srcEnded,       \* ReadRTP has returned an error
    workers,        \* in-flight worker goroutines = tokens in the workers channel
    processedChan,  \* buffered contents of h.processedChan
    chanCloses,     \* calls of close(h.processedChan)
    packetCounter,  \* the captured packetCounter
    reported,       \* sum of the "Processed %d packets/sec" reports
    poolDrops,      \* "Worker pool full, dropping packet" events
    queueDrops,     \* "Packet dropped: buffer full" events
    writerPc,       \* writeToFFmpeg: "select", "flush", "done"
    batch,          \* batch
    flushIdx,       \* position of flushBatch's range loop
    final,          \* flushBatch was called from the !ok branch
    sinkLog,        \* payloads the sink accepted, in order
    sinkBroken,     \* the sink's reading end is gone: Writes fail from now on
    panic,          \* "none" or the runtime panic that ended the process
    \* ---- history (not program state) ----
    enqLog,         \* payloads sent on processedChan, in send order
    drainLog,       \* payloads received from processedChan, in receive order
    sinkFailed,     \* some Write has returned an error
    writeAfterFail, \* a Write was attempted after a Write had failed
    writeAfterClose \* a Write was attempted after Close had been called

vars == <<workerCount, metricsEnabled, hDone, done, stops, cleanupPc, sinkCloses,
          readerPc, pkt, nread, srcEnded, workers, processedChan, chanCloses,
          packetCounter, reported, poolDrops, queueDrops, writerPc, batch,
          flushIdx, final, sinkLog, sinkBroken, panic, enqLog, drainLog,
          sinkFailed, writeAfterFail, writeAfterClose>>

readerVars == <<readerPc, pkt, nread, srcEnded>>
workerVars == <<workers, packetCounter, reported, queueDrops>>
writerVars == <<writerPc, batch, flushIdx, final, sinkLog, sinkBroken,
                drainLog, sinkFailed, writeAfterFail, writeAfterClose>>
lifeVars == <<hDone, done, stops, cleanupPc, sinkCloses>>
confVars == <<workerCount, metricsEnabled>>

Running == panic = "none"

\* chanClosed: close(h.processedChan) has run
chanClosed == chanCloses > 0

\* sinkClosed: h.ffmpegStdin.Close() has run
sinkClosed == sinkCloses > 0

\* the handler newStreamHandler returns and the goroutines OnTrack starts
InitPipeline ==
    /\ metricsEnabled = TRUE
    /\ hDone = FALSE
    /\ done = FALSE
    /\ stops = 0
    /\ cleanupPc = "wait"
    /\ sinkCloses = 0
    /\ readerPc = "start"
    /\ pkt = 0
    /\ nread = 0
    /\ srcEnded = FALSE
    /\ workers = {}
    /\ processedChan = <<>>
    /\ chanCloses = 0
    /\ packetCounter = 0
    /\ reported = 0
    /\ poolDrops = 0
    /\ queueDrops = 0
    /\ writerPc = "select"
    /\ batch = <<>>
    /\ flushIdx = 0
    /\ final = FALSE
    /\ sinkLog = <<>>
    /\ sinkBroken = FALSE
    /\ panic = "none"
    /\ enqLog = <<>>
    /\ drainLog = <<>>
    /\ sinkFailed = FALSE
    /\ writeAfterFail = FALSE
    /\ writeAfterClose = FALSE

\* main: handler := newStreamHandler(4), explored for 1..MaxWorkers workers
Init ==
    /\ workerCount \in 1..MaxWorkers
    /\ InitPipeline

\* newStreamHandler(workers) called with any worker count, invalid ones too
InitAnyConfig ==
    /\ workerCount \in -1..MaxWorkers
    /\ InitPipeline

\* ------------------------------------------------------------------
\* processRTPPackets: the read loop
\* ------------------------------------------------------------------

\* go handler.processRTPPackets(track): defer close(h.processedChan);
\* packetCounter := 0; workers := make(chan struct{}, h.workerCount).
\* make panics on a negative size; the deferred close runs while unwinding.
ReaderStart ==
    /\ Running
    /\ readerPc = "start"
    /\ IF workerCount < 0
         THEN /\ panic' = "makechan: size out of range"
              /\ chanCloses' = chanCloses + 1
              /\ readerPc' = "returned"
         ELSE /\ readerPc' = "select"
              /\ UNCHANGED <<panic, chanCloses>>
    /\ UNCHANGED <<pkt, nread, srcEnded, poolDrops, processedChan, enqLog>>
    /\ UNCHANGED <<workerVars, writerVars, lifeVars, confVars>>

\* select { case <-h.done: return; default: ... }; the return runs the
\* deferred close(h.processedChan)
ReaderSelect ==
    /\ Running
    /\ readerPc = "select"
    /\ IF hDone
         THEN /\ readerPc' = "returned"
              /\ chanCloses' = chanCloses + 1
         ELSE /\ readerPc' = "read"
              /\ UNCHANGED chanCloses
    /\ UNCHANGED <<pkt, nread, srcEnded, poolDrops, processedChan, enqLog, panic>>
    /\ UNCHANGED <<workerVars, writerVars, lifeVars, confVars>>

\* track.ReadRTP() returns the next packet, the source having at most
\* limit packets
ReadPacket(limit) ==
    /\ Running
    /\ readerPc = "read"
    /\ nread < limit
    /\ nread' = nread + 1
    /\ pkt' = nread + 1
    /\ readerPc' = "dispatch"
    /\ UNCHANGED <<srcEnded, chanCloses, poolDrops, processedChan, enqLog, panic>>
    /\ UNCHANGED <<workerVars, writerVars, lifeVars, confVars>>

\* track.ReadRTP() returns the next of MaxPackets packets
ReadRTPOk == ReadPacket(MaxPackets)

\* track.ReadRTP() returns the next of a longer burst of packets
ReadRTPBurst == ReadPacket(MaxPackets + 1)

\* track.ReadRTP() returns an error: print, return, deferred close
ReadRTPErr ==
    /\ Running
    /\ readerPc = "read"
    /\ srcEnded' = TRUE
    /\ readerPc' = "returned"
    /\ chanCloses' = chanCloses + 1
    /\ UNCHANGED <<pkt, nread, poolDrops, processedChan, enqLog, panic>>
    /\ UNCHANGED <<workerVars, writerVars, lifeVars, confVars>>

\* Mutant of SlotFree: the slot test is off by one.
SlotFreeOffByOne == Cardinality(workers) <= workerCount

\* case workers <- struct{}{}: the send on the buffered channel can proceed
SlotFree == Cardinality(workers) < workerCount

\* Mutant of Dispatch: a blocking acquire (no default branch).
DispatchBlocking ==
    /\ Running
    /\ readerPc = "dispatch"
    /\ SlotFree
    /\ workers' = workers \cup {[pkt |-> pkt, pc |-> "offer", tmp |-> 0]}
    /\ pkt' = 0
    /\ readerPc' = "select"
    /\ UNCHANGED <<nread, srcEnded, chanCloses, processedChan, enqLog, panic,
                   poolDrops, packetCounter, reported, queueDrops>>
    /\ UNCHANGED <<writerVars, lifeVars, confVars>>

\* select { case workers <- struct{}{}: go func(packet){...}(rtpPacket.Payload)
\*          default: "Worker pool full, dropping packet" }
Dispatch ==
    /\ Running
    /\ readerPc = "dispatch"
    /\ IF SlotFree
         THEN /\ workers' = workers \cup {[pkt |-> pkt, pc |-> "offer", tmp |-> 0]}
              /\ UNCHANGED poolDrops
         ELSE /\ poolDrops' = IF metricsEnabled THEN poolDrops + 1 ELSE poolDrops
              /\ UNCHANGED workers
    /\ pkt' = 0
    /\ readerPc' = "select"
    /\ UNCHANGED <<nread, srcEnded, chanCloses, processedChan, enqLog, panic,
                   packetCounter, reported, queueDrops>>
    /\ UNCHANGED <<writerVars, lifeVars, confVars>>

\* ------------------------------------------------------------------
\* the worker goroutine
\* ------------------------------------------------------------------

Step(w, newPc) == (workers \ {w}) \cup {[w EXCEPT !.pc = newPc]}

\* Mutant of QueueHasRoom: the capacity test is off by one.
QueueHasRoomOffByOne == Len(processedChan) <= QueueCap

\* case h.processedChan <- payload: the buffered send can proceed
QueueHasRoom == Len(processedChan) < QueueCap

\* payload := copy of packet; select { case h.processedChan <- payload: ...
\* default: "Packet dropped: buffer full" }.  A send on a closed channel
\* panics, in a select too.
WorkerOffer(w) ==
    /\ Running
    /\ w \in workers
    /\ w.pc = "offer"
    /\ IF chanClosed
         THEN /\ panic' = "send on closed channel"
              /\ UNCHANGED <<workers, processedChan, enqLog, queueDrops>>
         ELSE IF QueueHasRoom
           THEN /\ processedChan' = Append(processedChan, w.pkt)
                /\ enqLog' = Append(enqLog, w.pkt)
                /\ workers' = Step(w, IF metricsEnabled THEN "load" ELSE "release")
                /\ UNCHANGED <<panic, queueDrops>>
           ELSE /\ queueDrops' = IF metricsEnabled THEN queueDrops + 1 ELSE queueDrops
                /\ workers' = Step(w, "release")
                /\ UNCHANGED <<panic, processedChan, enqLog>>
    /\ UNCHANGED <<packetCounter, reported, poolDrops, chanCloses>>
    /\ UNCHANGED <<readerVars, writerVars, lifeVars, confVars>>

\* packetCounter++ is an unsynchronised read-modify-write: the read ...
WorkerLoad(w) ==
    /\ Running
    /\ w \in workers
    /\ w.pc = "load"
    /\ workers' = (workers \ {w}) \cup {[w EXCEPT !.pc = "store", !.tmp = packetCounter]}
    /\ UNCHANGED <<packetCounter, reported, queueDrops, poolDrops, chanCloses,
                   processedChan, enqLog, panic>>
    /\ UNCHANGED <<readerVars, writerVars, lifeVars, confVars>>

\* ... and the write; then
\* if time.Since(lastMetricTime) >= time.Second { Printf(packetCounter);
\* packetCounter = 0; lastMetricTime = time.Now() }
WorkerStore(w, elapsed) ==
    /\ Running
    /\ w \in workers
    /\ w.pc = "store"
    /\ IF elapsed
         THEN /\ reported' = reported + (w.tmp + 1)
              /\ packetCounter' = 0
         ELSE /\ packetCounter' = w.tmp + 1
              /\ UNCHANGED reported
    /\ workers' = (workers \ {w}) \cup {[w EXCEPT !.pc = "release", !.tmp = 0]}
    /\ UNCHANGED <<queueDrops, poolDrops, chanCloses, processedChan, enqLog, panic>>
    /\ UNCHANGED <<readerVars, writerVars, lifeVars, confVars>>

\* defer func() { <-workers }()
WorkerRelease(w) ==
    /\ Running
    /\ w \in workers
    /\ w.pc = "release"
    /\ workers' = workers \ {w}
    /\ UNCHANGED <<packetCounter, reported, queueDrops, poolDrops, chanCloses,
                   processedChan, enqLog, panic>>
    /\ UNCHANGED <<readerVars, writerVars, lifeVars, confVars>>

\* ------------------------------------------------------------------
\* writeToFFmpeg: the batching writer
\* ------------------------------------------------------------------

\* Mutant of BatchAppend: the payload goes to the front of the batch.
BatchPrepend(payload) == <<payload>> \o batch

\* batch = append(batch, payload)
BatchAppend(payload) == Append(batch, payload)

\* Mutant of ChanRecv: the receive leaves the payload in the channel.
ChanRecvPeek == <<Head(processedChan), processedChan>>

\* Mutant of BatchFull: the size test is off by one.
BatchFullLate(b) == Len(b) > BatchSize

\* if len(batch) >= batchSize
BatchFull(b) == Len(b) >= BatchSize

\* payload := <-h.processedChan on a non-empty buffer: <<payload, rest>>
ChanRecv == <<Head(processedChan), Tail(processedChan)>>

\* case payload, ok := <-h.processedChan with ok = true:
\* batch = append(batch, payload); if len(batch) >= batchSize { flushBatch() }
WriterRecv ==
    /\ Running
    /\ writerPc = "select"
    /\ Len(processedChan) > 0
    /\ processedChan' = ChanRecv[2]
    /\ drainLog' = Append(drainLog, ChanRecv[1])
    /\ batch' = BatchAppend(ChanRecv[1])
    /\ IF BatchFull(batch')
         THEN /\ writerPc' = "flush"
              /\ flushIdx' = 1
              /\ final' = FALSE
         ELSE UNCHANGED <<writerPc, flushIdx, final>>
    /\ UNCHANGED <<sinkLog, sinkBroken, sinkFailed, writeAfterFail, writeAfterClose>>
    /\ UNCHANGED <<chanCloses, poolDrops, enqLog, panic>>
    /\ UNCHANGED <<readerVars, workerVars, lifeVars, confVars>>

\* case payload, ok := <-h.processedChan with ok = false (closed and
\* drained): flushBatch(); return
WriterClosed ==
    /\ Running
    /\ writerPc = "select"
    /\ Len(processedChan) = 0
    /\ chanClosed
    /\ IF Len(batch) = 0
         THEN /\ writerPc' = "done"
              /\ UNCHANGED <<flushIdx, final>>
         ELSE /\ writerPc' = "flush"
              /\ flushIdx' = 1
              /\ final' = TRUE
    /\ UNCHANGED <<batch, sinkLog, sinkBroken, drainLog, sinkFailed,
                   writeAfterFail, writeAfterClose>>
    /\ UNCHANGED <<chanCloses, poolDrops, processedChan, enqLog, panic>>
    /\ UNCHANGED <<readerVars, workerVars, lifeVars, confVars>>

\* case <-ticker.C: flushBatch()
WriterTick ==
    /\ Running
    /\ writerPc = "select"
    /\ IF Len(batch) = 0
         THEN UNCHANGED <<writerPc, flushIdx, final>>
         ELSE /\ writerPc' = "flush"
              /\ flushIdx' = 1
              /\ final' = FALSE
    /\ UNCHANGED <<batch, sinkLog, sinkBroken, drainLog, sinkFailed,
                   writeAfterFail, writeAfterClose>>
    /\ UNCHANGED <<chanCloses, poolDrops, processedChan, enqLog, panic>>
    /\ UNCHANGED <<readerVars, workerVars, lifeVars, confVars>>

\* where control goes when flushBatch returns
AfterFlush == IF final THEN "done" ELSE "select"

\* if _, err := h.ffmpegStdin.Write(payload); err != nil { Println; return }
\* flushBatch returns with batch untouched; writeToFFmpeg goes on
FlushError ==
    /\ writerPc' = AfterFlush
    /\ flushIdx' = 0
    /\ UNCHANGED batch

\* one iteration of flushBatch's range loop: h.ffmpegStdin.Write(payload).
\* The sink is the write end of the pipe to ffmpeg (startFFmpeg): a Write
\* fails once the pipe is closed (Close) or broken (ffmpeg gone), and a
\* failed pipe stays failed.
\* After the last payload: batch = batch[:0]
WriterWrite(ok) ==
    /\ Running
    /\ writerPc = "flush"
    /\ ok => (~sinkClosed /\ ~sinkBroken)
    /\ writeAfterFail' = (writeAfterFail \/ sinkFailed)
    /\ writeAfterClose' = (writeAfterClose \/ sinkClosed)
    /\ IF ok
         THEN /\ sinkLog' = Append(sinkLog, batch[flushIdx])
              /\ IF flushIdx < Len(batch)
                   THEN /\ flushIdx' = flushIdx + 1
                        /\ UNCHANGED <<batch, writerPc>>
                   ELSE /\ batch' = <<>>
                        /\ flushIdx' = 0
                        /\ writerPc' = AfterFlush
              /\ UNCHANGED <<sinkBroken, sinkFailed>>
         ELSE /\ FlushError
              /\ sinkFailed' = TRUE
              /\ sinkBroken' = (sinkBroken \/ ~sinkClosed)
              /\ UNCHANGED sinkLog
    /\ UNCHANGED <<final, drainLog>>
    /\ UNCHANGED <<chanCloses, poolDrops, processedChan, enqLog, panic>>
    /\ UNCHANGED <<readerVars, workerVars, lifeVars, confVars>>

\* ------------------------------------------------------------------
\* main: the OnTrack callback's shutdown wiring
\* ------------------------------------------------------------------

\* OnConnectionStateChange(s) with s == PeerConnectionStateClosed:
\* close(done); closing a closed channel panics
OnConnectionStateClosed ==
    /\ Running
    /\ stops' = stops + 1
    /\ IF done
         THEN /\ panic' = "close of closed channel"
              /\ UNCHANGED done
         ELSE /\ done' = TRUE
              /\ UNCHANGED panic
    /\ UNCHANGED <<hDone, cleanupPc, sinkCloses>>
    /\ UNCHANGED <<chanCloses, poolDrops, processedChan, enqLog>>
    /\ UNCHANGED <<readerVars, workerVars, writerVars, confVars>>

\* the peer connection reaches Closed: the stop signal
StopSignal ==
    /\ stops = 0
    /\ OnConnectionStateClosed

\* the callback is run with Closed once more
StopSignalAgain ==
    /\ stops >= 1
    /\ stops < MaxStops
    /\ OnConnectionStateClosed

\* go func() { <-done; close(handler.done); ... }
CleanupCloseDone ==
    /\ Running
    /\ cleanupPc = "wait"
    /\ done
    /\ hDone' = TRUE
    /\ cleanupPc' = "close_sink"
    /\ UNCHANGED <<done, stops, sinkCloses>>
    /\ UNCHANGED <<chanCloses, poolDrops, processedChan, enqLog, panic>>
    /\ UNCHANGED <<readerVars, workerVars, writerVars, confVars>>

\* ... handler.ffmpegStdin.Close() }
CleanupCloseSink ==
    /\ Running
    /\ cleanupPc = "close_sink"
    /\ sinkCloses' = sinkCloses + 1
    /\ cleanupPc' = "end"
    /\ UNCHANGED <<hDone, done, stops>>
    /\ UNCHANGED <<chanCloses, poolDrops, processedChan, enqLog, panic>>
    /\ UNCHANGED <<readerVars, workerVars, writerVars, confVars>>

\* ------------------------------------------------------------------

Next ==
    \/ ReaderStart
    \/ ReaderSelect
    \/ ReadRTPOk
    \/ ReadRTPErr
    \/ Dispatch
    \/ \E w \in workers : WorkerOffer(w)
    \/ \E w \in workers : WorkerLoad(w)
    \/ \E w \in workers, elapsed \in BOOLEAN : WorkerStore(w, elapsed)
    \/ \E w \in workers : WorkerRelease(w)
    \/ WriterRecv
    \/ WriterClosed
    \/ WriterTick
    \/ \E ok \in BOOLEAN : WriterWrite(ok)
    \/ StopSignal
    \/ CleanupCloseDone
    \/ CleanupCloseSink

Spec == Init /\ [][Next]_vars

\* the pipeline with the stop signal issued more than once
NextTwice ==
    \/ Next
    \/ StopSignalAgain

SpecTwice == Init /\ [][NextTwice]_vars

\* one worker, no stop signal, and a burst one packet longer
InitBurst ==
    /\ workerCount = 1
    /\ InitPipeline

NextBurst ==
    \/ ReaderStart
    \/ ReaderSelect
    \/ ReadRTPBurst
    \/ ReadRTPErr
    \/ Dispatch
    \/ \E w \in workers : WorkerOffer(w)
    \/ \E w \in workers : WorkerLoad(w)
    \/ \E w \in workers, elapsed \in BOOLEAN : WorkerStore(w, elapsed)
    \/ \E w \in workers : WorkerRelease(w)
    \/ WriterRecv
    \/ WriterClosed
    \/ WriterTick
    \/ \E ok \in BOOLEAN : WriterWrite(ok)

SpecBurst == InitBurst /\ [][NextBurst]_vars

\* the pipeline built by newStreamHandler with any argument
SpecAnyConfig == InitAnyConfig /\ [][Next]_vars

\* ------------------------------------------------------------------
\* type invariant
\* ------------------------------------------------------------------
TypeOK ==
    /\ workerCount \in 1..MaxWorkers
    /\ readerPc \in {"start", "select", "read", "dispatch", "returned"}
    /\ writerPc \in {"select", "flush", "done"}
    /\ cleanupPc \in {"wait", "close_sink", "end"}
    /\ pkt \in 0..MaxPackets
    /\ nread \in 0..MaxPackets
    /\ \A w \in workers : w.pc \in {"offer", "load", "store", "release"}
    /\ panic \in {"none", "send on closed channel", "close of closed channel",
                 "makechan: size out of range"}

\* ------------------------------------------------------------------
\* helpers of the properties
\* ------------------------------------------------------------------
IsPrefix(a, b) == Len(a) <= Len(b) /\ \A i \in 1..Len(a) : a[i] = b[i]

Count(seq, p) == Cardinality({i \in 1..Len(seq) : seq[i] = p})

\* the part of the batch the sink has not taken yet
Pending == IF writerPc = "flush" THEN SubSeq(batch, flushIdx, Len(batch)) ELSE batch

\* packets the read loop has put through its dispatch select
DispatchAttempts == IF readerPc = "dispatch" THEN nread - 1 ELSE nread

\* nothing will run any more: the process has panicked, or the read loop
\* has returned, no worker is in flight and the writer has returned
Quiescent ==
    \/ panic # "none"
    \/ (readerPc = "returned" /\ workers = {} /\ writerPc = "done")

\* ------------------------------------------------------------------
\* C1  Bounded concurrency: the number of workers that hold a slot (acquired,
\* not yet released) never exceeds the configured worker count.
C1_BoundedConcurrency == Cardinality(workers) <= workerCount

\* with more than one slot configured, every slot is held
C1_Witness ==
    /\ workerCount >= 2
    /\ Cardinality(workers) = workerCount

\* ------------------------------------------------------------------
\* C2  processedChan is closed exactly once and only after every dispatched
\* worker has finished its offer: no worker sends on the closed channel.
C2_CloseAfterProducers ==
    /\ chanCloses <= 1
    /\ chanClosed => \A w \in workers : w.pc # "offer"
    /\ panic # "send on closed channel"

\* ------------------------------------------------------------------
\* C3  Graceful drain: after the source has ended (and with a working sink),
\* when the pipeline has come to rest every payload accepted by the handoff
\* queue has been written to the sink exactly once.
C3_GracefulDrain ==
    (srcEnded /\ ~sinkFailed /\ Quiescent) =>
        \A p \in 1..MaxPackets : Count(sinkLog, p) = Count(enqLog, p)

C5_SinkFailureFatal == ~writeAfterFail

\* ------------------------------------------------------------------
\* C6  The sink is closed only after the writer's final flush: the writer
\* never attempts a Write on the sink after Close.
C6_FlushBeforeSinkClose == ~writeAfterClose

\* ------------------------------------------------------------------
\* C7  Idempotent shutdown: a second stop signal changes nothing: no channel
\* is closed twice (no panic) and the sink is closed at most once.
C7_IdempotentShutdown ==
    /\ panic # "close of closed channel"
    /\ sinkCloses <= 1

\* ------------------------------------------------------------------
\* C8  No upstream blocking: the dispatch step can always be taken, and with
\* every slot held it drops the packet in one step, records the drop, starts
\* no worker, queues nothing and returns to the top of the read loop.
C8_NonBlockingDispatch ==
    /\ []((readerPc = "dispatch" /\ Running) => ENABLED Dispatch)
    /\ [][(readerPc = "dispatch" /\ ~SlotFree /\ readerPc' # "dispatch") =>
            /\ readerPc' = "select"
            /\ pkt' = 0
            /\ poolDrops' = poolDrops + 1
            /\ workers' = workers
            /\ processedChan' = processedChan]_vars

\* a packet was dropped at dispatch while slot pool and queue are both full
C8_Witness ==
    /\ poolDrops >= 1
    /\ Cardinality(workers) = workerCount
    /\ Len(processedChan) = QueueCap
    /\ readerPc = "select"

\* ------------------------------------------------------------------
\* C9  Drop accounting: once all workers have finished, processed (reported
\* plus current packetCounter) plus drops equals the dispatch attempts.
C9_DropAccounting ==
    (workers = {} /\ Running) =>
        reported + packetCounter + poolDrops + queueDrops = DispatchAttempts

\* ------------------------------------------------------------------
\* C10  Queue capacity: processedChan never holds more than its capacity; an
\* offer can always be taken, and on a full queue it drops the payload,
\* records the drop and leaves the queue as it was.
C10_QueueCapacity ==
    /\ [](Len(processedChan) <= QueueCap)
    /\ [](\A w \in workers : (w.pc = "offer" /\ Running) => ENABLED WorkerOffer(w))
    /\ [][\A w \in workers :
            (w.pc = "offer" /\ ~chanClosed /\ Len(processedChan) >= QueueCap
                /\ w \notin workers') =>
                /\ processedChan' = processedChan
                /\ enqLog' = enqLog
                /\ queueDrops' = queueDrops + 1
                /\ [w EXCEPT !.pc = "release"] \in workers']_vars

\* a payload was dropped at the offer and the queue is still full
C10_Witness ==
    /\ queueDrops >= 1
    /\ Len(processedChan) = QueueCap

C12_BoundedStaleness ==
    (Quiescent /\ ~sinkFailed) => sinkLog = drainLog

\* ------------------------------------------------------------------
\* C13  Configuration validation: no pipeline runs with a worker count that
\* is not positive: with such a count no packet is read and nothing panics.
C13_ConfigValidated ==
    workerCount <= 0 => (nread = 0 /\ panic = "none")

\* ------------------------------------------------------------------
\* C14  Stop signal stops reading: once h.done is closed the read loop takes
\* no further packet from the source.
C14_StopStopsReading == [][hDone => nread' = nread]_vars

\* ------------------------------------------------------------------
\* C15  Fatal failures unwind the pipeline: once the sink has failed a Write,
\* no packet is read, no payload is enqueued and none is drained into the
\* batch any more.
C15_SinkFailureUnwinds ==
    [][sinkBroken => (nread' = nread /\ enqLog' = enqLog /\ drainLog' = drainLog)]_vars

\* ------------------------------------------------------------------
\* C16  Batch bound: the batch never holds more than the batch-size threshold,
\* failed sink writes included.
C16_BatchBound == Len(batch) <= BatchSize

C18_SinkClosedOnce ==
    (readerPc = "returned" /\ writerPc = "done" /\ cleanupPc # "close_sink") =>
        sinkCloses = 1

\* ------------------------------------------------------------------
\* where a packet p that was read can be: in the read loop's hand on its way
\* to the dispatch select, with a worker that has not made its offer yet, in
\* the queue, in the unwritten part of the batch, at the sink
Occurrences(p) ==
    (IF readerPc = "dispatch" /\ pkt = p THEN 1 ELSE 0)
        + Cardinality({w \in workers : w.pkt = p /\ w.pc = "offer"})
        + Count(processedChan, p) + Count(Pending, p) + Count(sinkLog, p)

\* C19  Packet conservation: while no Write has failed, every packet read is
\* in at most one place (read loop, worker, queue, batch, sink), the packets
\* that are nowhere are exactly the recorded drops, and the sink holds only
\* payloads that were read.
C19_PacketConservation ==
    ~sinkFailed =>
        /\ \A p \in 1..nread : Occurrences(p) <= 1
        /\ Cardinality({p \in 1..nread : Occurrences(p) = 0})
              = poolDrops + queueDrops
        /\ \A i \in 1..Len(sinkLog) : sinkLog[i] \in 1..nread

\* both packets were read: one was dropped, the other reached the sink
C19_Witness ==
    /\ ~sinkFailed
    /\ nread = MaxPackets
    /\ poolDrops + queueDrops >= 1
    /\ Len(sinkLog) >= 1

\* ------------------------------------------------------------------
\* C20  Order preservation with a single worker: with workerCount = 1 the
\* sink receives payloads in arrival order (a subsequence of the arrivals);
\* with more workers two payloads can reach it in the opposite order
\* (the witness).
C20_SingleWorkerOrder ==
    workerCount = 1 =>
        \A i, j \in 1..Len(sinkLog) : i < j => sinkLog[i] < sinkLog[j]

\* with two workers the later packet reached the sink first
C20_Witness ==
    /\ workerCount >= 2
    /\ Len(sinkLog) = 2
    /\ sinkLog[1] > sinkLog[2]

====
